---- MODULE Spec2Model ----
(***************************************************************************)
(* The order-intake service of src/src/index.js: the in-memory order store,*)
(* the create-order handler, the get-order handler with its downstream     *)
(* (OMS) enrichment call, and the list-orders handler.                     *)
(*                                                                         *)
(* Representation of JavaScript values:                                    *)
(*   - money is counted in cents; a JavaScript number that may be NaN is a *)
(*     record [nan, c];                                                    *)
(*   - a requested quantity is counted in halves (h = 2 * quantity), so    *)
(*     that non-integer quantities exist; [def |-> FALSE] is `undefined`;  *)
(*   - catalog prices are multiples of 0.25, so price * quantity * 100 is  *)
(*     exact in binary floating point and Math.round sees the exact value; *)
(*   - strings that are missing are Undefined, || null gives Null;         *)
(*   - a timestamp is [src, t]: the local clock's or the downstream's.     *)
(***************************************************************************)
EXTENDS Integers, Sequences, FiniteSets, TLC

\* ------------------------------------------------------------------ bounds
MaxItems == 2        \* longest items list of a create-order request
MaxOrders == 2       \* orders the store holds before create-order is cut off
MaxGets == 2         \* get-order requests that reach the downstream call

VARIABLES
  orders,     \* the Map `orders`, as the sequence of its values in insertion order
  uuids,      \* how many identifiers uuidv4() has handed out
  inflight,   \* get-order requests that reached the downstream call, by number
  response,   \* the last HTTP response sent
  created     \* history: the orders returned with status 201, oldest first

vars == <<orders, uuids, inflight, response, created>>

\* ------------------------------------------------------- JavaScript values
Undefined == "<undefined>"
Null == "<null>"
Falsy(s) == s \in {Undefined, Null, ""}
\* a || b on strings
Or(a, b) == IF Falsy(a) THEN b ELSE a

NaN == [nan |-> TRUE, c |-> 0]
Num(n) == [nan |-> FALSE, c |-> n]
\* a + b on numbers
Plus(a, b) == IF a.nan \/ b.nan THEN NaN ELSE Num(a.c + b.c)

NoQuantity == [def |-> FALSE, h |-> 0]
Qty(h) == [def |-> TRUE, h |-> h]
\* q <= 0 on a quantity: undefined converts to NaN, and NaN <= 0 is false
LeqZero(q) == q.def /\ q.h <= 0

\* Math.round(n / d) for d > 0: the nearest integer, halves rounded up
MathRound(n, d) == (2 * n + d) \div (2 * d)

\* Math.round(unitPrice * quantity * 100) / 100, in cents
Subtotal(unitPrice, q) ==
  IF q.def THEN Num(MathRound(unitPrice * q.h, 2)) ELSE NaN

\* Math.round(totalAmount * 100) / 100, in cents
RoundTotal(t) == IF t.nan THEN NaN ELSE Num(MathRound(t.c, 1))

\* new Date().toISOString(): the local clock ticks with every identifier issued
ToISOString(t) == [src |-> "local", t |-> t]
NoTime == [src |-> Undefined, t |-> 0]
\* a || b on timestamps
OrTime(a, b) == IF a.src = Undefined THEN b ELSE a

\* ----------------------------------------------------------------- catalog
products ==
  << [id |-> "prod-001", name |-> "Product 1", price |-> 1000],
     [id |-> "prod-002", name |-> "Product 2", price |-> 1225] >>

\* find that falls back on the first product
FindProductOrFirst(id) ==
  IF \E i \in 1..Len(products) : products[i].id = id
  THEN CHOOSE i \in 1..Len(products) : products[i].id = id
  ELSE 1

\* products.find(p => p.id === id): the index of the first match, 0 if none
FindProduct(id) ==
  IF \E i \in 1..Len(products) : products[i].id = id
  THEN CHOOSE i \in 1..Len(products) :
         /\ products[i].id = id
         /\ \A j \in 1..(i - 1) : products[j].id # id
  ELSE 0

\* ---------------------------------------------------------------- requests
Item(p, q, cp) == [productId |-> p, quantity |-> q, price |-> cp, isNull |-> FALSE]
\* a null entry of the items array
NullItem == [productId |-> Null, quantity |-> NoQuantity, price |-> Undefined,
             isNull |-> TRUE]
ItemValues ==
  { Item("prod-001", Qty(2), Undefined),    \* quantity 1
    Item("prod-001", NoQuantity, Undefined),\* no quantity
    Item("prod-001", Qty(0), Undefined),    \* quantity 0
    Item("prod-001", Qty(-2), Undefined),   \* quantity -1
    Item("prod-002", Qty(1), "0.01"),       \* quantity 0.5, a client price
    Item("prod-404", Qty(2), Undefined),    \* not in the catalog
    Item("prod-404", Qty(0), Undefined),
    NullItem }
ItemLists == UNION {[1..n -> ItemValues] : n \in 0..MaxItems}
\* req.body.items: undefined, a value that is no array, or an array
NoItems == [kind |-> "undefined", elems |-> <<>>]
ItemsArray(l) == [kind |-> "array", elems |-> l]
ItemsValues ==
  {NoItems, [kind |-> "object", elems |-> <<>>]} \cup {ItemsArray(l) : l \in ItemLists}
\* req.body.customer: undefined, or an object
Customer(n, e, a) ==
  [def |-> TRUE, name |-> n, email |-> e, address |-> a, phone |-> Undefined]
NoCustomer ==
  [def |-> FALSE, name |-> Undefined, email |-> Undefined, address |-> Undefined,
   phone |-> Undefined]
JohnDoe == Customer("John Doe", "john@example.com", Undefined)
Customers ==
  { NoCustomer, JohnDoe,
    Customer("John Doe", "john@example.com", "123 Main St, City"),
    Customer(Undefined, "john@example.com", Undefined),
    Customer("", "john@example.com", Undefined),
    Customer("John Doe", Undefined, Undefined),
    Customer("John Doe", "", Undefined) }
OneItem == ItemsArray(<<Item("prod-001", Qty(2), Undefined)>>)
\* every items value with a valid customer, and every customer with three items values
Bodies ==
  [items : ItemsValues, customer : {JohnDoe}]
  \cup [items : {NoItems, ItemsArray(<<>>), OneItem}, customer : Customers]
\* the requests of the whole-service specification: one item, or none
SysBodies == [items : {ItemsArray(<<>>), OneItem}, customer : {JohnDoe}]
\* the same, and the requests with one item that has no quantity, or half a one
AnyBodies ==
  SysBodies
  \cup [items : {ItemsArray(<<Item("prod-001", NoQuantity, Undefined)>>),
                 ItemsArray(<<Item("prod-002", Qty(1), "0.01")>>)},
        customer : {JohnDoe}]

\* --------------------------------------------------------------- the store
\* orders.has(id)
Has(store, id) == \E i \in 1..Len(store) : store[i].id = id
\* orders.get(id), for an id the store has
Get(store, id) == store[CHOOSE i \in 1..Len(store) : store[i].id = id]
\* orders.set(id, order): a new key is appended, an existing key keeps its place
MapSet(store, id, order) ==
  IF Has(store, id)
  THEN [i \in 1..Len(store) |-> IF store[i].id = id THEN order ELSE store[i]]
  ELSE Append(store, order)

\* --------------------------------------------------------------- responses
NoError == [msg |-> "", id |-> ""]
Error(m, i) == [msg |-> m, id |-> i]
NoReply == [kind |-> "none", hasData |-> FALSE, status |-> Undefined, updatedAt |-> NoTime]
NoBody == [items |-> NoItems, customer |-> NoCustomer]
\* res.status(code).json(...): data holds the order, or the orders, of the body.
\* With the response are recorded the request it answers (the body of a
\* create-order, the id of a get-order), what the downstream call of a get-order
\* settled with, and the store as the handler's last step found it.
Response(op, code, err, data, before) ==
  [op |-> op, code |-> code, error |-> err, data |-> data, total |-> Len(data),
   body |-> NoBody, id |-> 0, reply |-> NoReply, before |-> before]
NoResponse == Response("none", 0, NoError, <<>>, <<>>)

\* ------------------------------------------------------------ create-order
\* an identifier source that hands out the same identifier again
Uuidv4Reused(n) == 1

\* the identifier uuidv4() returns when n identifiers were issued before
Uuidv4(n) == n + 1

\* the for loop over items from index i on, with the items priced so far and
\* their running total: the first failing item ends it
RECURSIVE PriceItems(_, _, _, _)
PriceItems(items, i, orderItems, totalAmount) ==
  IF i > Len(items)
  THEN [code |-> 201, error |-> NoError, items |-> orderItems, total |-> totalAmount]
  ELSE
    LET item == items[i]
        k == FindProduct(item.productId)
    IN  IF item.isNull
        THEN \* item.productId throws, the catch answers 500
             [code |-> 500, error |-> Error("Internal server error", ""),
              items |-> <<>>, total |-> Num(0)]
        ELSE IF k = 0
        THEN [code |-> 400, error |-> Error("Product not found", item.productId),
              items |-> <<>>, total |-> Num(0)]
        ELSE IF LeqZero(item.quantity)
        THEN [code |-> 400,
              error |-> Error("Invalid quantity for product", item.productId),
              items |-> <<>>, total |-> Num(0)]
        ELSE
          LET unitPrice == products[k].price
              subtotal == Subtotal(unitPrice, item.quantity)
          IN  PriceItems(items, i + 1,
                Append(orderItems,
                  [productId |-> products[k].id, name |-> products[k].name,
                   price |-> unitPrice, quantity |-> item.quantity,
                   unitPrice |-> unitPrice, subtotal |-> subtotal]),
                Plus(totalAmount, subtotal))

\* a validation that asks for the customer's name and not for the email
ValidateNameOnly(body) ==
  IF body.items.kind # "array" \/ Len(body.items.elems) = 0
  THEN [code |-> 400,
        error |-> Error("Items array is required and cannot be empty", ""),
        items |-> <<>>, total |-> Num(0)]
  ELSE IF ~body.customer.def \/ Falsy(body.customer.name)
  THEN [code |-> 400,
        error |-> Error("Customer information (name, email) is required", ""),
        items |-> <<>>, total |-> Num(0)]
  ELSE PriceItems(body.items.elems, 1, <<>>, Num(0))

\* lines 66-118: the validation and pricing of a request body
Validate(body) ==
  IF body.items.kind # "array" \/ Len(body.items.elems) = 0
  THEN [code |-> 400,
        error |-> Error("Items array is required and cannot be empty", ""),
        items |-> <<>>, total |-> Num(0)]
  ELSE IF ~body.customer.def \/ Falsy(body.customer.email) \/ Falsy(body.customer.name)
  THEN [code |-> 400,
        error |-> Error("Customer information (name, email) is required", ""),
        items |-> <<>>, total |-> Num(0)]
  ELSE PriceItems(body.items.elems, 1, <<>>, Num(0))

\* the order object built from a priced request
NewOrder(orderId, priced, customer, now) ==
  [id |-> orderId,
   items |-> priced.items,
   customer |-> [name |-> customer.name, email |-> customer.email,
                 address |-> Or(customer.address, Null),
                 phone |-> Or(customer.phone, Null)],
   totalAmount |-> RoundTotal(priced.total),
   currency |-> "USD",
   status |-> "pending",
   createdAt |-> ToISOString(now),
   updatedAt |-> ToISOString(now)]

\* POST /api/orders/create
CreateOrder(body) ==
  /\ LET priced == Validate(body)
         orderId == Uuidv4(uuids)
         order == NewOrder(orderId, priced, body.customer, uuids)
     IN  IF priced.code = 201
         THEN /\ orders' = MapSet(orders, orderId, order)
              /\ uuids' = uuids + 1
              /\ response' =
                   [Response("create", 201, NoError, <<order>>, orders) EXCEPT
                      !.body = body]
              /\ created' = Append(created, order)
         ELSE /\ response' =
                   [Response("create", priced.code, priced.error, <<>>, orders) EXCEPT
                      !.body = body]
              /\ UNCHANGED <<orders, uuids, created>>
  /\ UNCHANGED inflight

\* GET /api/orders
ListOrders ==
  /\ response' = Response("list", 200, NoError, orders, orders)
  /\ UNCHANGED <<orders, uuids, inflight, created>>

\* ---------------------------------------------------- the downstream (OMS)
OmsStatuses == {Undefined, "shipped", "delivered"}
OmsTimes == {NoTime, [src |-> "oms", t |-> 1]}
\* how fetch(...) settles: it rejects, or resolves with a response that is ok or not
FetchReplies ==
  {[kind |-> k, hasData |-> FALSE, status |-> Undefined, updatedAt |-> NoTime] :
     k \in {"throw", "notOk", "ok"}}
\* how omsResponse.json() settles: it rejects, or resolves with a body whose data
\* is missing or carries status and updatedAt, each possibly missing
JsonReplies ==
  {[kind |-> "invalid", hasData |-> FALSE, status |-> Undefined, updatedAt |-> NoTime],
   [kind |-> "json", hasData |-> FALSE, status |-> Undefined, updatedAt |-> NoTime]}
  \cup [kind : {"json"}, hasData : {TRUE}, status : OmsStatuses, updatedAt : OmsTimes]

\* ---------------------------------------------------------------- get-order
\* request r awaits a promise of the downstream call
Waiting(r) == inflight[r].pc \in {"fetch", "json"}
Done == [id |-> 0, pc |-> "done", settled |-> FALSE]

\* an enrichment that takes the downstream's fields as they come, missing or not
EnrichNoFallback(order, data) ==
  [order EXCEPT !.status = data.status, !.updatedAt = data.updatedAt]
\* an enrichment that forgets the timestamp
EnrichStatusOnly(order, data) ==
  [order EXCEPT !.status = Or(data.status, order.status)]
\* an enrichment that keeps a status once the downstream has given one
EnrichFirstWins(order, data) ==
  [order EXCEPT !.status = IF order.status = "pending"
                           THEN Or(data.status, order.status) ELSE order.status,
                !.updatedAt = OrTime(data.updatedAt, order.updatedAt)]

\* lines 187-188: the order with the downstream's status and updatedAt, where given
Enrich(order, data) ==
  [order EXCEPT !.status = Or(data.status, order.status),
                !.updatedAt = OrTime(data.updatedAt, order.updatedAt)]

\* res.json({success: true, data: order}) of a request that consumed `reply`
GetResponse(order, reply, before) ==
  [Response("get", 200, NoError, <<order>>, before) EXCEPT
     !.id = order.id, !.reply = reply]

\* GET /api/orders/:id up to the await of fetch(...)
GetOrder(orderId) ==
  IF ~Has(orders, orderId)
  THEN /\ response' =
            [Response("get", 404, Error("Order not found", ""), <<>>, orders) EXCEPT
               !.id = orderId]
       /\ UNCHANGED <<orders, uuids, inflight, created>>
  ELSE /\ Len(inflight) < MaxGets
       /\ inflight' = Append(inflight, [id |-> orderId, pc |-> "fetch", settled |-> FALSE])
       /\ UNCHANGED <<orders, uuids, response, created>>

\* the downstream settles the promise request r awaits; what it settled with
\* shows when the handler resumes
OmsSettles(r) ==
  /\ Waiting(r)
  /\ ~inflight[r].settled
  /\ inflight' = [inflight EXCEPT ![r].settled = TRUE]
  /\ UNCHANGED <<orders, uuids, response, created>>

\* the handler of request r resumes after await fetch(...), which settled with reply
GetOrderAfterFetch(r, reply) ==
  /\ inflight[r].pc = "fetch"
  /\ inflight[r].settled
  /\ LET order == Get(orders, inflight[r].id)
     IN  IF reply.kind = "ok"
         THEN /\ inflight' = [inflight EXCEPT ![r].pc = "json", ![r].settled = FALSE]
              /\ UNCHANGED response
         ELSE \* the catch, or omsResponse.ok is false
              /\ inflight' = [inflight EXCEPT ![r] = Done]
              /\ response' = GetResponse(order, reply, orders)
  /\ UNCHANGED <<orders, uuids, created>>

\* lines 184-190: the store after omsResponse.json() settled with reply for orderId
StoreAfterJson(store, orderId, reply) ==
  IF reply.kind = "json" /\ reply.hasData
  THEN MapSet(store, orderId, Enrich(Get(store, orderId), reply))
  ELSE store

\* the handler of request r resumes after await omsResponse.json(), which settled
\* with reply; `order` is the stored object itself, so the response shows what the
\* store holds
GetOrderAfterJson(r, reply) ==
  /\ inflight[r].pc = "json"
  /\ inflight[r].settled
  /\ orders' = StoreAfterJson(orders, inflight[r].id, reply)
  /\ response' = GetResponse(Get(orders', inflight[r].id), reply, orders)
  /\ inflight' = [inflight EXCEPT ![r] = Done]
  /\ UNCHANGED <<uuids, created>>

Init ==
  /\ orders = <<>>
  /\ uuids = 0
  /\ inflight = <<>>
  /\ response = NoResponse
  /\ created = <<>>

\* the create-order handler alone, over every request body. A rejected request
\* is the last of its run: the run that goes on without it visits the same stores
NextCreate ==
  /\ Len(orders) < MaxOrders
  /\ response.code \in {0, 201}
  /\ \E body \in Bodies : CreateOrder(body)
SpecCreate == Init /\ [][NextCreate]_vars

\* the requests that are not create-order, and the downstream
Serve ==
  \/ \E orderId \in 1..MaxOrders : GetOrder(orderId)
  \/ ListOrders
  \/ \E r \in 1..Len(inflight) : OmsSettles(r)
  \/ \E r \in 1..Len(inflight) : \E reply \in FetchReplies : GetOrderAfterFetch(r, reply)
  \/ \E r \in 1..Len(inflight) : \E reply \in JsonReplies : GetOrderAfterJson(r, reply)

\* the whole service
Next ==
  \/ Len(orders) < MaxOrders /\ \E body \in SysBodies : CreateOrder(body)
  \/ Serve
Spec == Init /\ [][Next]_vars

\* the whole service, with the create-order requests of AnyBodies
NextAny ==
  \/ Len(orders) < MaxOrders /\ \E body \in AnyBodies : CreateOrder(body)
  \/ Serve
SpecAny == Init /\ [][NextAny]_vars

\* the event loop runs a handler whose awaited promise has settled; nothing makes
\* a client send a request or the downstream answer one
HandlersRun ==
  \A r \in 1..MaxGets :
    /\ WF_vars(r <= Len(inflight) /\ \E reply \in FetchReplies : GetOrderAfterFetch(r, reply))
    /\ WF_vars(r <= Len(inflight) /\ \E reply \in JsonReplies : GetOrderAfterJson(r, reply))
FairSpec == Spec /\ HandlersRun

\* ================================================================ the claims
\* what the claims say of a request, in the words of the claims
InCatalog(productId) == \E i \in 1..Len(products) : products[i].id = productId
CatalogPrice(productId) ==
  products[CHOOSE i \in 1..Len(products) : products[i].id = productId].price
PositiveInteger(q) == q.def /\ q.h > 0 /\ q.h % 2 = 0
NonPositive(q) == q.def /\ q.h <= 0
Unknown(item) == ~item.isNull /\ ~InCatalog(item.productId)
ValidCustomer(c) == c.def /\ c.name \notin {Undefined, ""} /\ c.email \notin {Undefined, ""}
Malformed(body) ==
  \/ body.items.kind # "array"
  \/ Len(body.items.elems) = 0
  \/ ~ValidCustomer(body.customer)
\* two amounts are equal: both are numbers, and the same one (NaN equals nothing)
StrictEq(a, b) == ~a.nan /\ ~b.nan /\ a.c = b.c
CreateAnswered == response.op = "create"
RequestItems == response.body.items.elems
\* the sum over the items of catalog price x quantity, in half cents
RECURSIVE SumPriceTimesQuantity(_)
SumPriceTimesQuantity(items) ==
  IF items = <<>> THEN 0
  ELSE CatalogPrice(Head(items).productId) * Head(items).quantity.h
       + SumPriceTimesQuantity(Tail(items))

\* C1: an accepted create-order request stores and returns an order whose items
\* are the requested ones at the catalog's price, and whose totalAmount is the
\* sum of catalog price x quantity over the items, rounded to 2 decimals;
\* nothing of the order comes from a price the client sent.
C1_TotalIsRoundedCatalogSum ==
  (CreateAnswered /\ response.code = 201) =>
    LET order == response.data[1]
    IN  /\ Has(orders, order.id) /\ Get(orders, order.id) = order
        /\ Len(order.items) = Len(RequestItems)
        /\ \A i \in 1..Len(RequestItems) :
             /\ order.items[i].productId = RequestItems[i].productId
             /\ order.items[i].quantity = RequestItems[i].quantity
             /\ order.items[i].unitPrice = CatalogPrice(RequestItems[i].productId)
             /\ order.items[i].price = CatalogPrice(RequestItems[i].productId)
             /\ RequestItems[i].quantity.def
        /\ StrictEq(order.totalAmount,
                    Num(MathRound(SumPriceTimesQuantity(RequestItems), 2)))

\* C2: a create-order request whose items are missing, no list or empty, or whose
\* customer is missing or lacks a name or an email, is answered 400 and leaves
\* the store as it was.
C2_MalformedRequestRejected ==
  (CreateAnswered /\ Malformed(response.body)) =>
    /\ response.code = 400
    /\ response.data = <<>>
    /\ orders = response.before
C2_Witness ==
  /\ CreateAnswered
  /\ response.body.items.kind = "array" /\ Len(RequestItems) > 0
  /\ response.body.customer.def /\ response.body.customer.email = Undefined
  /\ response.code = 400
  /\ Len(orders) > 0

\* the first index of items whose entry satisfies P, 0 if none
FirstIndex(items, P(_)) ==
  IF \E i \in 1..Len(items) : P(items[i])
  THEN CHOOSE i \in 1..Len(items) : P(items[i]) /\ \A j \in 1..(i - 1) : ~P(items[j])
  ELSE 0
Fails(item) == Unknown(item) \/ (~item.isNull /\ NonPositive(item.quantity))
IsNull(item) == item.isNull
HasUnknown ==
  /\ CreateAnswered
  /\ ~Malformed(response.body)
  /\ \E i \in 1..Len(RequestItems) : Unknown(RequestItems[i])

C4_QuantityPositiveInteger ==
  /\ \A k \in 1..Len(orders) : \A i \in 1..Len(orders[k].items) :
       PositiveInteger(orders[k].items[i].quantity)
  /\ ( /\ CreateAnswered
       /\ ~Malformed(response.body)
       /\ \E i \in 1..Len(RequestItems) :
            ~RequestItems[i].isNull /\ ~PositiveInteger(RequestItems[i].quantity) )
     => ( /\ response.code = 400
          /\ orders = response.before )

\* ----------------------------------------------------- the get-order claims
GetAnswered == response.op = "get" /\ response.code = 200
Truthy(s) == s \notin {Undefined, Null, ""}
TruthyTime(t) == t.src # Undefined
\* the downstream call threw, was not OK, or gave nothing to use
Unusable(reply) ==
  \/ reply.kind \in {"throw", "notOk", "invalid"}
  \/ reply.kind = "json" /\ ~reply.hasData
  \/ reply.kind = "json" /\ ~Truthy(reply.status) /\ ~TruthyTime(reply.updatedAt)

\* C5: a get-order request for a stored order whose downstream call throws, is
\* not OK or gives no usable data is answered 200 with the stored record and
\* leaves the store as it was; no get-order request for a stored order is
\* answered with an error.
C5_DownstreamFailureAbsorbed ==
  /\ (response.op = "get" /\ response.reply # NoReply) => response.code = 200
  /\ (GetAnswered /\ Unusable(response.reply)) =>
       /\ orders = response.before
       /\ response.data = <<Get(response.before, response.id)>>
C5_Witness ==
  /\ GetAnswered
  /\ response.reply.kind = "throw"
  /\ response.data[1].status = "shipped"
  /\ response.data[1].updatedAt.src = "oms"

\* the sum of the items' subtotals
RECURSIVE SumSubtotals(_)
SumSubtotals(items) ==
  IF items = <<>> THEN Num(0)
  ELSE Plus(Head(items).subtotal, SumSubtotals(Tail(items)))
Frozen(order) == [order EXCEPT !.status = "", !.updatedAt = NoTime]

\* C6: every stored order's totalAmount equals the sum of its items' subtotals,
\* and a get-order changes at most the status and updatedAt of the order asked
\* for.
C6_TotalIsSumOfSubtotals ==
  /\ \A k \in 1..Len(orders) :
       StrictEq(orders[k].totalAmount, SumSubtotals(orders[k].items))
  /\ GetAnswered =>
       /\ Len(orders) = Len(response.before)
       /\ \A k \in 1..Len(orders) :
            IF orders[k].id = response.id
            THEN Frozen(orders[k]) = Frozen(response.before[k])
            ELSE orders[k] = response.before[k]

\* C7: every order returned with 201 is listed exactly once, under the
\* identifier it was returned with and with its items, totalAmount and customer;
\* no identifier is given twice, no order is removed, and the list holds as many
\* orders as were created.
C7_CreatedOrdersListedOnce ==
  /\ Len(orders) = Len(created)
  /\ \A i \in 1..Len(created) :
       /\ Cardinality({k \in 1..Len(orders) : orders[k].id = created[i].id}) = 1
       /\ \A k \in 1..Len(orders) :
            orders[k].id = created[i].id =>
              /\ orders[k].items = created[i].items
              /\ orders[k].totalAmount = created[i].totalAmount
              /\ orders[k].customer = created[i].customer
  /\ \A i, j \in 1..Len(created) : created[i].id = created[j].id => i = j
  /\ (response.op = "create" /\ response.code = 201) =>
       response.data[1] = created[Len(created)]
  /\ response.op = "list" =>
       /\ response.data = orders
       /\ response.total = Len(created)
C7_Witness ==
  /\ response.op = "list"
  /\ response.total = 2
  /\ \E k \in 1..Len(response.data) : response.data[k].status # "pending"

\* C8: a get-order request whose downstream answer carries a status and an
\* updatedAt stores both before it answers, and every get-order answer shows the
\* status and updatedAt the store holds for that order.
C8_EnrichmentStoredAndReturned ==
  /\ GetAnswered => response.data = <<Get(orders, response.id)>>
  /\ ( /\ GetAnswered
       /\ response.reply.kind = "json" /\ response.reply.hasData
       /\ Truthy(response.reply.status) /\ TruthyTime(response.reply.updatedAt) )
     => /\ Get(orders, response.id).status = response.reply.status
        /\ Get(orders, response.id).updatedAt = response.reply.updatedAt
C8_Witness ==
  /\ GetAnswered
  /\ response.reply.kind = "json" /\ response.reply.hasData
  /\ response.reply.status = "delivered" /\ TruthyTime(response.reply.updatedAt)
  /\ Get(response.before, response.id).status = "shipped"
  /\ response.data[1].status = "delivered"

\* C9: every get-order request that reached the downstream call is answered in
\* the end, whatever the downstream does.
C9_GetOrderAnswered ==
  \A r \in 1..MaxGets :
    (r <= Len(inflight) /\ Waiting(r)) ~> (r <= Len(inflight) /\ inflight[r].pc = "done")

\* two get-order requests that await the downstream at once
Overlapping(r1, r2) ==
  /\ r1 \in 1..Len(inflight) /\ r2 \in 1..Len(inflight) /\ r1 # r2
  /\ Waiting(r1) /\ Waiting(r2)
\* the store after the answers a then b were applied for r1 then r2
AfterBoth(r1, a, r2, b) ==
  StoreAfterJson(StoreAfterJson(orders, inflight[r1].id, a), inflight[r2].id, b)

\* C10, as claimed: the store two overlapping get-order requests leave does not
\* depend on which of their downstream answers is applied first.
C10_AnswersCommute ==
  \A r1, r2 \in 1..MaxGets : Overlapping(r1, r2) =>
    \A a, b \in JsonReplies : AfterBoth(r1, a, r2, b) = AfterBoth(r2, b, r1, a)
\* C10, amended: answers for different orders commute; of two answers for the
\* same order the one applied last decides each of status and updatedAt it
\* carries, and the earlier one decides what the later one lacks.
C10_LastAnswerWins ==
  \A r1, r2 \in 1..MaxGets : (r1 < r2 /\ Overlapping(r1, r2)) =>
    \A a, b \in JsonReplies :
      LET id1 == inflight[r1].id
          id2 == inflight[r2].id
          old == Get(orders, id2)
          new == Get(AfterBoth(r1, a, r2, b), id2)
      IN  /\ id1 # id2 => AfterBoth(r1, a, r2, b) = AfterBoth(r2, b, r1, a)
          /\ (id1 = id2 /\ a.hasData /\ b.hasData) =>
               /\ new.status = IF Truthy(b.status) THEN b.status
                               ELSE IF Truthy(a.status) THEN a.status
                               ELSE old.status
               /\ new.updatedAt = IF TruthyTime(b.updatedAt) THEN b.updatedAt
                                  ELSE IF TruthyTime(a.updatedAt) THEN a.updatedAt
                                  ELSE old.updatedAt
               /\ Frozen(new) = Frozen(old)
C10_Witness ==
  \E r1, r2 \in 1..Len(inflight) :
    /\ Overlapping(r1, r2)
    /\ inflight[r1].id = inflight[r2].id
    /\ inflight[r1].pc = "json" /\ inflight[r1].settled
    /\ inflight[r2].pc = "json" /\ inflight[r2].settled

====
